---- MODULE Spec2Model ----
(***************************************************************************)
(* Model of the retrieval-augmented answering engine of src/rag.py:        *)
(* SecondBrain.query, its stream_generator and SecondBrain._local_fallback.*)
(* Strings are sequences of one-character strings, so that the formatting  *)
(* done by query and the re-parsing done by _local_fallback are computed   *)
(* character by character.  One action is one pull (next()) of the caller  *)
(* on the fragment sequence: the generator runs from the yield it is       *)
(* suspended at to the next yield or to its end.  SecondBrain._smart_chunk *)
(* and SecondBrain.add_document are modelled loop iteration by loop        *)
(* iteration; dictionaries live in a heap, so that sharing one dictionary  *)
(* between records differs from copying it.                                *)
(***************************************************************************)
EXTENDS Integers, Sequences, FiniteSets, TLC

VARIABLES
    client,            \* self.client is not None (credential configured)
    local_model,       \* "loaded" or "none" (self.local_model)
    results,           \* chunks returned by collection.query, ranked
    context,           \* the context string built by query
    pc,                \* the yield the generator is suspended at
    out,               \* fragments received by the caller so far
    stream,            \* the primary stream: "none", "open", "ended", "raised"
    delivered,         \* fragments the primary stream has produced so far
    primary_calls,     \* calls of generate_content_stream
    local_calls,       \* calls of self.local_model(prompt, ...)
    raised,            \* an exception escaped the generator
    doc_texts,         \* documents reconstructed from the context
    combined_context,  \* source text placed in the local prompt
    answer,            \* text generated by the local model
    idx,               \* loop position in the summary / excerpt loops
    shown,             \* excerpts shown by the last-resort fallback
    chunk_text,        \* _smart_chunk: text, the text to split
    chunk_size,        \* _smart_chunk: the size limit
    overlap,           \* _smart_chunk: the overlap argument
    text_parts,        \* _smart_chunk: parts = text.split("\n\n")
    part_i,            \* _smart_chunk: position of the loop over parts
    current_chunk,     \* _smart_chunk: the running buffer
    final_chunks,      \* _smart_chunk: the chunks appended so far
    chunks,            \* _smart_chunk: the returned list
    cpc,               \* _smart_chunk: "idle", "start", "parts", "carve",
                       \* "done"
    apc,               \* add_document: "idle", "called", "chunking", or
                       \* "direct" when _smart_chunk is called on its own
    heap,              \* the dictionaries, by reference
    metadata,          \* add_document: reference of the caller's mapping
    collection,        \* the records of the vector store
    adds,              \* calls of collection.add
    uuids,             \* identifiers generated by uuid.uuid4
    clock              \* calls of add_document so far: datetime.now() moves on

vars == <<client, local_model, results, context, pc, out, stream,
          delivered, primary_calls, local_calls, raised, doc_texts,
          combined_context, answer, idx, shown, chunk_text, chunk_size,
          overlap, text_parts, part_i, current_chunk, final_chunks, chunks,
          cpc, apc, heap, metadata, collection, adds, uuids, clock>>

----------------------------------------------------------------------------
(* Bounds of the model *)

\* most fragments a primary stream delivers before it ends or raises
MaxPrimary == 2

----------------------------------------------------------------------------
(* Python string operations on sequences of characters *)

Min(a, b) == IF a < b THEN a ELSE b

Max(a, b) == IF a > b THEN a ELSE b

\* characters str.strip(), str.split() and the regex class \s treat as blank
IsSpace(c) == c \in {" ", "\n", "\t", "\r"}

\* s[:n]
Take(s, n) == SubSeq(s, 1, Min(n, Len(s)))

\* s[n:] with n counted from 0
Drop(s, n) == SubSeq(s, n + 1, Len(s))

\* str.strip()
Strip(s) ==
    LET keep == {i \in 1..Len(s) : ~IsSpace(s[i])}
    IN  IF keep = {} THEN <<>>
        ELSE SubSeq(s,
               CHOOSE i \in keep : \A j \in 1..(i - 1) : IsSpace(s[j]),
               CHOOSE i \in keep : \A j \in (i + 1)..Len(s) : IsSpace(s[j]))

\* str.lower() on one character
LowerChar(c) ==
    CASE c = "A" -> "a" [] c = "B" -> "b" [] c = "C" -> "c" [] c = "D" -> "d"
      [] c = "E" -> "e" [] c = "F" -> "f" [] c = "G" -> "g" [] c = "H" -> "h"
      [] c = "I" -> "i" [] c = "J" -> "j" [] c = "K" -> "k" [] c = "L" -> "l"
      [] c = "M" -> "m" [] c = "N" -> "n" [] c = "O" -> "o" [] c = "P" -> "p"
      [] c = "Q" -> "q" [] c = "R" -> "r" [] c = "S" -> "s" [] c = "T" -> "t"
      [] c = "U" -> "u" [] c = "V" -> "v" [] c = "W" -> "w" [] c = "X" -> "x"
      [] c = "Y" -> "y" [] c = "Z" -> "z" [] OTHER -> c

\* str.lower()
Lower(s) == [i \in 1..Len(s) |-> LowerChar(s[i])]

\* str.split(c) for a one-character separator: empty pieces are kept
RECURSIVE SplitFrom(_, _, _)
SplitFrom(s, c, start) ==
    LET hits == {j \in start..Len(s) : s[j] = c}
    IN  IF hits = {} THEN <<SubSeq(s, start, Len(s))>>
        ELSE LET j == CHOOSE h \in hits : \A k \in hits : h <= k
             IN  <<SubSeq(s, start, j - 1)>> \o SplitFrom(s, c, j + 1)

SplitChar(s, c) == SplitFrom(s, c, 1)

\* set(s.split()): the maximal runs of non-blank characters of s
WordSet(s) ==
    LET starts == {i \in 1..Len(s) :
                     ~IsSpace(s[i]) /\ (i = 1 \/ IsSpace(s[i - 1]))}
        EndOf(i) == CHOOSE j \in i..Len(s) :
                       /\ \A k \in i..j : ~IsSpace(s[k])
                       /\ (j = Len(s) \/ IsSpace(s[j + 1]))
    IN  {SubSeq(s, i, EndOf(i)) : i \in starts}

\* sep.join(parts)
RECURSIVE Join(_, _)
Join(parts, sep) ==
    IF parts = <<>> THEN <<>>
    ELSE IF Len(parts) = 1 THEN parts[1]
    ELSE parts[1] \o sep \o Join(Tail(parts), sep)

\* re.sub(r'\s+', ' ', s): every run of blanks becomes one space
CollapseSpaces(s) ==
    LET marked == [i \in 1..Len(s) |->
                     [c |-> s[i], inRun |-> i > 1 /\ IsSpace(s[i - 1])]]
        NotDropped(m) == ~(IsSpace(m.c) /\ m.inRun)
        kept == SelectSeq(marked, NotDropped)
    IN  [i \in 1..Len(kept) |-> IF IsSpace(kept[i].c) THEN " " ELSE kept[i].c]

\* position of the first occurrence of the two characters a b in s, or 0
Find2(s, a, b) ==
    LET hits == {i \in 1..(Len(s) - 1) : s[i] = a /\ s[i + 1] = b}
    IN  IF hits = {} THEN 0 ELSE CHOOSE h \in hits : \A k \in hits : h <= k

\* position of the ':' that the regex fragment \)\s*: reaches from the ')'
\* at position j, or 0 when the first non-blank after j is not a colon
ColonAfter(s, j) ==
    LET rest == {m \in (j + 1)..Len(s) : ~IsSpace(s[m])}
    IN  IF rest = {} THEN 0
        ELSE LET m == CHOOSE h \in rest : \A k \in rest : h <= k
             IN  IF s[m] = ":" THEN m ELSE 0

\* re.search(r'\([^)]+\)\s*:', s) is not None
HasSourceTag(s) ==
    \E j \in 1..Len(s) :
        /\ s[j] = ")"
        /\ ColonAfter(s, j) # 0
        /\ \E i \in 1..(j - 2) :
              s[i] = "(" /\ \A k \in (i + 1)..(j - 1) : s[k] # ")"

\* re.search(r'\)\s*:\s*(.+)', s): <<group(1)>> of the leftmost match, or
\* <<>> when there is no match.  s holds no newline (it is one line).
ContentMatch(s) ==
    LET hits == {j \in 1..Len(s) :
                   /\ s[j] = ")"
                   /\ ColonAfter(s, j) # 0
                   /\ \E k \in (ColonAfter(s, j) + 1)..Len(s) : s[k] # "\n"}
    IN  IF hits = {} THEN <<>>
        ELSE LET j == CHOOSE h \in hits : \A k \in hits : h <= k
                 rest == Drop(s, ColonAfter(s, j))
                 body == {k \in 1..Len(rest) : ~IsSpace(rest[k])}
             IN  IF body = {} THEN <<rest>>
                 ELSE <<Drop(rest, (CHOOSE h \in body :
                                        \A k \in body : h <= k) - 1)>>

----------------------------------------------------------------------------
(* Program constants *)

\* n_results of collection.query
NResults == 3

\* a reconstructed document is kept when it is longer than this
MinDocLength == 20

\* max_context_length
MaxContextLength == 300

\* an answer shorter than this counts as degenerate
MinAnswerLength == 20

\* characters of raw context shown when the local model is missing
LoadErrorExcerpt == 500

\* characters of raw context shown when no document is reconstructed
ParseErrorExcerpt == 300

\* characters of one excerpt of the last-resort fallback
ExcerptLength == 250

\* excerpts shown by the last-resort fallback, sentences of the summary
MaxShown == 3

MaxSentences == 3

\* timestamp[:10]
DateLength == 10

----------------------------------------------------------------------------
(* Texts: stored chunks, metadata values, answers of the local model *)

S_Unknown ==
    <<"U", "n", "k", "n", "o", "w", "n">>

S_RecOpen ==
    <<"-", " ", "[">>

S_RecMid ==
    <<"]", " ", "(">>

S_RecClose ==
    <<")", ":", " ">>

TextHello ==
    <<"H", "e", "l", "l", "o", " ", "w", "o", "r", "l", "d", ".">>

TextGoodbye ==
    <<"G", "o", "o", "d", "b", "y", "e", " ", "w", "o", "r", "l", "d", ".">>

TextGeo ==
    <<"P", "a", "r", "i", "s", " ", "i", "s", " ", "t", "h", "e", " ", "c",
      "a", "p", "i", "t", "a", "l", " ", "o", "f", " ", "F", "r", "a", "n",
      "c", "e", ".", "\n", "\n", "I", "t", " ", "h", "a", "s", " ", "a", " ",
      "p", "o", "p", "u", "l", "a", "t", "i", "o", "n", " ", "o", "f", " ",
      "o", "v", "e", "r", " ", "2", " ", "m", "i", "l", "l", "i", "o", "n",
      ".">>

TextNoteHead ==
    <<"N", "o", "t", "e", " ", "[", "1", "]", ":", " ">>

TextNoteUnit ==
    <<"a", "l", "p", "h", "a", " ", "b", "e", "t", "a", " ", "g", "a", "m",
      "m", "a", " ", "d", "e", "l", "t", "a", ".", " ">>

SrcA ==
    <<"a", ".", "t", "x", "t">>

SrcB ==
    <<"b", ".", "t", "x", "t">>

SrcGeo ==
    <<"g", "e", "o", ".", "t", "x", "t">>

SrcW ==
    <<"w", ".", "t", "x", "t">>

DateA ==
    <<"2", "0", "2", "4", "-", "0", "1", "-", "0", "1", "T", "0", "9", ":",
      "3", "0", ":", "0", "0">>

DateB ==
    <<"2", "0", "2", "4", "-", "0", "1", "-", "0", "2", "T", "1", "8", ":",
      "4", "5", ":", "1", "0">>

Answer70 ==
    <<"P", "a", "r", "i", "s", " ", "i", "s", " ", "t", "h", "e", " ", "c",
      "a", "p", "i", "t", "a", "l", " ", "o", "f", " ", "F", "r", "a", "n",
      "c", "e", ".", " ", "i", "t", " ", "l", "i", "e", "s", " ", "b", "e",
      "s", "i", "d", "e", " ", "r", "i", "v", "e", "r", "s">>

Answer80 ==
    <<"P", "a", "r", "i", "s", " ", "i", "s", " ", "t", "h", "e", " ", "c",
      "a", "p", "i", "t", "a", "l", " ", "o", "f", " ", "F", "r", "a", "n",
      "c", "e", ".", " ", "i", "t", " ", "h", "a", "s", " ", "b", "e", "s",
      "i", "d", "e", " ", "r", "i", "v", "e", "r", "s">>

AnswerShort ==
    <<"P", "a", "r", "i", "s", ".">>

AnswerFresh ==
    <<"N", "o", "t", "h", "i", "n", "g", " ", "h", "e", "r", "e", " ", "m",
      "a", "t", "c", "h", "e", "s", " ", "a", "n", "y", " ", "s", "t", "o",
      "r", "e", "d", " ", "w", "o", "r", "d", "s">>

ScenarioContext ==
    <<"-", " ", "[", "2", "0", "2", "4", "-", "0", "1", "-", "0", "1", "]",
      " ", "(", "a", ".", "t", "x", "t", ")", ":", " ", "H", "e", "l", "l",
      "o", " ", "w", "o", "r", "l", "d", ".", "\n", "-", " ", "[", "2", "0",
      "2", "4", "-", "0", "1", "-", "0", "2", "]", " ", "(", "b", ".", "t",
      "x", "t", ")", ":", " ", "G", "o", "o", "d", "b", "y", "e", " ", "w",
      "o", "r", "l", "d", ".">>

\* 'n' copies of 'unit'
RECURSIVE Repeat(_, _)
Repeat(unit, n) == IF n = 0 THEN <<>> ELSE unit \o Repeat(unit, n - 1)

\* a chunk longer than every truncation limit, holding the marker "]:"
TextNote == Strip(TextNoteHead \o Repeat(TextNoteUnit, 22))

Letters == <<"a", "b", "c", "d", "e", "f", "g", "h", "i", "j">>

OtherLetters == <<"k", "l", "m", "n", "o", "p", "q", "r", "s", "t">>

\* character p of n two-letter words joined by spaces: word number w is
\* spelled with Letters when w < k and with OtherLetters otherwise, so the
\* n words are distinct and the two kinds never coincide
WordsChar(p, k) ==
    LET w == (p - 1) \div 3
        abc == IF w < k THEN Letters ELSE OtherLetters
    IN  CASE (p - 1) % 3 = 0 -> abc[(w \div 10) + 1]
          [] (p - 1) % 3 = 1 -> abc[(w % 10) + 1]
          [] OTHER -> " "

WordsText(n, k) == [p \in 1..(3 * n - 1) |-> WordsChar(p, k)]

\* a chunk of 75 distinct words
TextWords == WordsText(75, 75)

\* 100 distinct words, the first k of them words of TextWords
AnswerWords(k) == WordsText(100, k)

\* what the local model may generate
Answers ==
    {Answer70, Answer80, AnswerShort, AnswerFresh, <<>>,
     AnswerWords(70), AnswerWords(71)}

\* fragments of the primary model
PrimaryChunk == <<"o", "k">>

\* a chunk with a line that starts with "-" and holds a tag and a colon
TextList ==
    <<"S", "h", "o", "p", "p", "i", "n", "g", " ", "l", "i", "s", "t", " ",
      "f", "o", "r", " ", "t", "h", "e", " ", "w", "e", "e", "k", ":", "\n",
      "-", " ", "(", "f", "r", "u", "i", "t", ")", ":", " ", "a", "p", "p",
      "l", "e", "s", " ", "a", "n", "d", " ", "p", "e", "a", "r", "s", " ",
      "f", "r", "o", "m", " ", "t", "h", "e", " ", "m", "a", "r", "k", "e",
      "t">>

SrcList ==
    <<"l", "i", "s", "t", ".", "t", "x", "t">>

\* stored chunks: text and metadata
ChunkHello ==
    [text |-> TextHello, meta |-> [source |-> SrcA, created_at |-> DateA]]

ChunkGoodbye ==
    [text |-> TextGoodbye, meta |-> [source |-> SrcB, created_at |-> DateB]]

\* two paragraphs, no created_at
ChunkGeo ==
    [text |-> TextGeo, meta |-> [source |-> SrcGeo]]

\* no source
ChunkNote ==
    [text |-> TextNote, meta |-> [created_at |-> DateB]]

ChunkWords ==
    [text |-> TextWords, meta |-> [source |-> SrcW, created_at |-> DateA]]

ChunkList ==
    [text |-> TextList, meta |-> [source |-> SrcList, created_at |-> DateA]]

\* the stored chunks collection.query chooses from
Pool ==
    {ChunkHello, ChunkGoodbye, ChunkGeo, ChunkNote, ChunkWords, ChunkList}

\* ranked result lists of at most NResults distinct chunks
ResultLists ==
    UNION {{r \in [1..n -> Pool] : \A i, j \in 1..n : i # j => r[i] # r[j]}
           : n \in 0..NResults}


----------------------------------------------------------------------------
(* query: formatting of the retrieved chunks into the context string *)

\* dict.get(key, default)
Get(meta, key, default) ==
    IF key \in DOMAIN meta THEN meta[key] ELSE default

\* variant: created_at is shown in full
FormatLine_FullDate(chunk) ==
    S_RecOpen \o Get(chunk.meta, "created_at", S_Unknown)
      \o S_RecMid \o Get(chunk.meta, "source", S_Unknown)
      \o S_RecClose \o chunk.text \o <<"\n">>

\* f"- [{timestamp}] ({source}): {docs[i]}\n"
FormatLine(chunk) ==
    S_RecOpen \o Take(Get(chunk.meta, "created_at", S_Unknown), DateLength)
      \o S_RecMid \o Get(chunk.meta, "source", S_Unknown)
      \o S_RecClose \o chunk.text \o <<"\n">>

\* the loop over the retrieved documents
RECURSIVE FormatContext(_)
FormatContext(res) ==
    IF res = <<>> THEN <<>>
    ELSE FormatLine(Head(res)) \o FormatContext(Tail(res))

\* contexts handed to _local_fallback when it is called on its own
DirectContexts ==
    {ScenarioContext}
      \cup {FormatContext(res) : res \in {r \in ResultLists : Len(r) <= 2}}

----------------------------------------------------------------------------
(* _local_fallback: reconstruction of the documents from the context *)

\* the line starts a new document: "- [date] (source):"
IsMarker(line) ==
    /\ line # <<>>
    /\ line[1] = "-"
    /\ HasSourceTag(line)

\* current_doc after a marker line: its content after the colon, if any
NewDoc(line) ==
    LET m == ContentMatch(line)
    IN  IF m = <<>> THEN <<>>
        ELSE IF Strip(m[1]) # <<>> THEN <<Strip(m[1])>> ELSE <<>>

\* variant: every document that is not empty is kept
KeepDoc_Any(combined) == Len(combined) > 0

\* len(combined) > 20
KeepDoc(combined) == Len(combined) > MinDocLength

\* save the accumulated document, cleaned of repeated blanks
FlushDoc(current_doc, docs) ==
    IF current_doc = <<>> THEN docs
    ELSE LET combined == Strip(CollapseSpaces(Join(current_doc, <<" ">>)))
         IN  IF KeepDoc(combined) THEN Append(docs, combined) ELSE docs

\* the loop over the lines of the context, and the flush after it
RECURSIVE ParseLines(_, _, _, _)
ParseLines(lines, i, current_doc, docs) ==
    IF i > Len(lines) THEN FlushDoc(current_doc, docs)
    ELSE LET line_stripped == Strip(lines[i])
         IN  IF IsMarker(line_stripped)
             THEN ParseLines(lines, i + 1, NewDoc(line_stripped),
                             FlushDoc(current_doc, docs))
             ELSE IF line_stripped # <<>>
             THEN ParseLines(lines, i + 1,
                             Append(current_doc, line_stripped), docs)
             ELSE ParseLines(lines, i + 1, current_doc, docs)

\* doc_texts of a context
ParseDocs(ctx) == ParseLines(SplitChar(ctx, "\n"), 1, <<>>, <<>>)

\* variant: the joined documents are not cut
CombineDocs_Uncut(docs) == Join(docs, <<" ">>)

\* the joined documents, cut to max_context_length
CombineDocs(docs) ==
    LET joined == Join(docs, <<" ">>)
    IN  IF Len(joined) > MaxContextLength
        THEN Take(joined, MaxContextLength) ELSE joined

----------------------------------------------------------------------------
(* _local_fallback: validation of the generated answer *)

\* answer_words
AnswerWordSet(ans) == WordSet(Lower(ans))

\* context_words
ContextWordSet(src) == WordSet(Lower(src))

\* variant: overlap >= 0.7
OverlapTooHigh_Inclusive(ans, src) ==
    10 * Cardinality(AnswerWordSet(ans) \cap ContextWordSet(src))
        >= 7 * Max(Cardinality(AnswerWordSet(ans)), 1)

\* overlap > 0.7, with overlap = shared / max(len(answer_words), 1); the
\* quotient of two small integers exceeds the double 0.7 exactly when it
\* exceeds 7/10
OverlapTooHigh(ans, src) ==
    10 * Cardinality(AnswerWordSet(ans) \cap ContextWordSet(src))
        > 7 * Max(Cardinality(AnswerWordSet(ans)), 1)

\* overlap > 0.7 or len(answer) < 20
IsCopy(ans, src) ==
    OverlapTooHigh(ans, src) \/ Len(ans) < MinAnswerLength

\* combined_context.split('.')[:3]
Sentences(src) == Take(SplitChar(src, "."), MaxSentences)

\* first position at or after i of a sentence that is not blank, or 0
NextSentence(sents, i) ==
    LET hits == {k \in i..Len(sents) : Strip(sents[k]) # <<>>}
    IN  IF hits = {} THEN 0 ELSE CHOOSE h \in hits : \A k \in hits : h <= k

----------------------------------------------------------------------------
(* _local_fallback: the last-resort excerpts after a local exception *)

\* context.strip().split('\n')
ExcerptLines(ctx) == SplitChar(Strip(ctx), "\n")

\* line.split(']:', 1)[1].strip() when the line holds "]:", else empty
ExcerptContent(line) ==
    IF Strip(line) # <<>> /\ Find2(line, "]", ":") # 0
    THEN Strip(Drop(line, Find2(line, "]", ":") + 1))
    ELSE <<>>

\* first position at or after i of a line that gives an excerpt, or 0
NextExcerpt(lines, i) ==
    LET hits == {k \in i..Len(lines) : ExcerptContent(lines[k]) # <<>>}
    IN  IF hits = {} THEN 0 ELSE CHOOSE h \in hits : \A k \in hits : h <= k

----------------------------------------------------------------------------
(* Fragments *)

Frag(kind, n, text) == [kind |-> kind, n |-> n, text |-> text]

\* f"**API Key Missing. Context:**\n\n{context}"
KeyMissingFrag(ctx) == Frag("api_key_missing", 0, ctx)

\* a chunk of the primary stream
PrimaryFrag(n) == Frag("primary", n, PrimaryChunk)

\* "I couldn't find any relevant documents in your Second Brain."
NoDocumentsFrag == Frag("no_documents", 0, <<>>)

\* "**Error: Local model failed to load at startup. ..."
LoadErrorFrag == Frag("load_error", 0, <<>>)

\* f"Raw context:\n{context[:500]}..."
RawContextFrag(ctx) == Frag("raw_context", 0, Take(ctx, LoadErrorExcerpt))

\* "**(Local Fallback Model Active)**\n\n"
LocalActiveFrag == Frag("local_active", 0, <<>>)

\* "I found documents but couldn't extract their content properly.\n\n"
ParseErrorFrag == Frag("parse_error", 0, <<>>)

\* f"Raw context:\n{context[:300]}..."
RawExcerptFrag(ctx) == Frag("raw_excerpt", 0, Take(ctx, ParseErrorExcerpt))

\* "**Summary from your documents:**\n\n"
SummaryFrag == Frag("summary", 0, <<>>)

\* f"{i}. {sent.strip()}.\n\n"
SentenceFrag(i, sent) == Frag("sentence", i, Strip(sent))

\* f"{answer}\n\n"
AnswerFrag(ans) == Frag("answer", 0, ans)

\* f"*Source: {len(doc_texts)} document(s) from your Second Brain*"
SourceFrag(docs) == Frag("source_count", Len(docs), <<>>)

\* "**Based on your documents:**\n\n"
BasedFrag == Frag("based_on", 0, <<>>)

\* f"{shown}. {content[:250]}...\n\n"
ExcerptFrag(n, content) == Frag("excerpt", n, Take(content, ExcerptLength))

----------------------------------------------------------------------------
(* State *)

setup == <<client, local_model>>

retrieved == <<results, context>>

primary == <<stream, delivered, primary_calls>>

local == <<local_calls, doc_texts, combined_context, answer>>

loops == <<idx, shown>>

chunker == <<chunk_text, chunk_size, overlap, text_parts, part_i,
             current_chunk, final_chunks, chunks, cpc>>

store == <<apc, heap, metadata, collection, adds, uuids, clock>>

indexing == <<chunker, store>>

generation == <<setup, retrieved, pc, out, primary, local, loops, raised>>

\* no chunking and no ingestion is going on
IndexingIdle ==
    /\ chunk_text = <<>>
    /\ chunk_size = 0
    /\ overlap = 0
    /\ text_parts = <<>>
    /\ part_i = 0
    /\ current_chunk = <<>>
    /\ final_chunks = <<>>
    /\ chunks = <<>>
    /\ cpc = "idle"
    /\ apc = "idle"
    /\ heap = <<>>
    /\ metadata = 0
    /\ collection = <<>>
    /\ adds = 0
    /\ uuids = 0
    /\ clock = 0

\* no query is going on
GenerationIdle ==
    /\ client = FALSE
    /\ local_model = "none"
    /\ results = <<>>
    /\ context = <<>>
    /\ pc = "idle"
    /\ out = <<>>
    /\ stream = "none"
    /\ delivered = <<>>
    /\ primary_calls = 0
    /\ local_calls = 0
    /\ raised = FALSE
    /\ doc_texts = <<>>
    /\ combined_context = <<>>
    /\ answer = <<>>
    /\ idx = 0
    /\ shown = 0

\* SecondBrain.__init__: the credential and the local model are there or not
Init ==
    /\ client \in BOOLEAN
    /\ local_model \in {"loaded", "none"}
    /\ results = <<>>
    /\ context = <<>>
    /\ pc = "init"
    /\ out = <<>>
    /\ stream = "none"
    /\ delivered = <<>>
    /\ primary_calls = 0
    /\ local_calls = 0
    /\ raised = FALSE
    /\ doc_texts = <<>>
    /\ combined_context = <<>>
    /\ answer = <<>>
    /\ idx = 0
    /\ shown = 0
    /\ IndexingIdle

----------------------------------------------------------------------------
(* query and stream_generator *)

\* variant: query itself opens the call of the primary model
Query_Eager ==
    /\ pc = "init"
    /\ \E res \in ResultLists :
          /\ results' = res
          /\ context' = FormatContext(res)
    /\ pc' = "ready"
    /\ primary_calls' = primary_calls + 1
    /\ UNCHANGED <<indexing, setup, out, stream, delivered, local, loops,
                   raised>>

\* query: retrieval and formatting; the generator is returned unstarted
Query ==
    /\ pc = "init"
    /\ \E res \in ResultLists :
          /\ results' = res
          /\ context' = FormatContext(res)
    /\ pc' = "ready"
    /\ UNCHANGED <<indexing, setup, out, primary, local, loops, raised>>

\* variant: the empty context is not checked for
EnterFallback_NoEmptyCheck ==
    IF local_model = "none"
    THEN /\ out' = Append(out, LoadErrorFrag)
         /\ pc' = "y_load_error"
    ELSE /\ out' = Append(out, LocalActiveFrag)
         /\ pc' = "y_local_active"

\* _local_fallback from its entry to its first yield
EnterFallback ==
    IF context = <<>>
    THEN /\ out' = Append(out, NoDocumentsFrag)
         /\ pc' = "y_no_documents"
    ELSE IF local_model = "none"
    THEN /\ out' = Append(out, LoadErrorFrag)
         /\ pc' = "y_load_error"
    ELSE /\ out' = Append(out, LocalActiveFrag)
         /\ pc' = "y_local_active"

\* variant: without a client the generator goes to the local fallback
KeyMissing_FallsBack ==
    /\ pc = "ready"
    /\ ~client
    /\ EnterFallback
    /\ UNCHANGED <<indexing, setup, retrieved, primary, local, loops, raised>>

\* first pull without a client: the notice with the raw context
KeyMissing ==
    /\ pc = "ready"
    /\ ~client
    /\ out' = Append(out, KeyMissingFrag(context))
    /\ pc' = "y_key_missing"
    /\ UNCHANGED <<indexing, setup, retrieved, primary, local, loops, raised>>

\* the generator is at, or before, the request of the next primary chunk
AtPrimary == client /\ pc \in {"ready", "y_primary"}

\* generate_content_stream is called by the first pull only
OpenedCalls == IF pc = "ready" THEN primary_calls + 1 ELSE primary_calls

\* variant: the chunk is held back instead of being yielded
Forward_Dropped(o, chunk) == o

\* yield chunk
Forward(o, chunk) == Append(o, chunk)

\* the stream delivers a chunk and the generator yields it
PrimaryChunkArrives ==
    /\ AtPrimary
    /\ Len(delivered) < MaxPrimary
    /\ primary_calls' = OpenedCalls
    /\ stream' = "open"
    /\ delivered' = Append(delivered, PrimaryFrag(Len(delivered) + 1))
    /\ out' = Forward(out, PrimaryFrag(Len(delivered) + 1))
    /\ pc' = "y_primary"
    /\ UNCHANGED <<indexing, setup, retrieved, local, loops, raised>>

\* the stream ends: the generator ends with it
PrimaryEnds ==
    /\ AtPrimary
    /\ primary_calls' = OpenedCalls
    /\ stream' = "ended"
    /\ pc' = "done"
    /\ UNCHANGED <<indexing, setup, retrieved, out, delivered, local, loops,
                   raised>>

\* variant: the handler calls the primary model again
PrimaryFails_Retry ==
    /\ AtPrimary
    /\ primary_calls' = OpenedCalls + 1
    /\ stream' = "open"
    /\ pc' = "y_primary"
    /\ UNCHANGED <<indexing, setup, retrieved, out, delivered, local, loops,
                   raised>>

\* the call or the stream raises: except Exception, yield from the fallback
PrimaryFails ==
    /\ AtPrimary
    /\ primary_calls' = OpenedCalls
    /\ stream' = "raised"
    /\ EnterFallback
    /\ UNCHANGED <<indexing, setup, retrieved, delivered, local, loops,
                   raised>>

----------------------------------------------------------------------------
(* _local_fallback after its first yield *)

\* the local model is missing: the raw context excerpt
LoadErrorExcerptShown ==
    /\ pc = "y_load_error"
    /\ out' = Append(out, RawContextFrag(context))
    /\ pc' = "y_raw_context"
    /\ UNCHANGED <<indexing, setup, retrieved, primary, local, loops, raised>>

\* no document is reconstructed: the notice
ParseFails ==
    /\ pc = "y_local_active"
    /\ ParseDocs(context) = <<>>
    /\ doc_texts' = <<>>
    /\ out' = Append(out, ParseErrorFrag)
    /\ pc' = "y_parse_error"
    /\ UNCHANGED <<indexing, setup, retrieved, primary, local_calls,
                   combined_context, answer, loops, raised>>

\* ... and the raw excerpt after the notice
ParseErrorExcerptShown ==
    /\ pc = "y_parse_error"
    /\ out' = Append(out, RawExcerptFrag(context))
    /\ pc' = "y_raw_excerpt"
    /\ UNCHANGED <<indexing, setup, retrieved, primary, local, loops, raised>>

\* the local model returns a text: validation and the first fragment of
\* the summary or of the answer
LocalAnswers ==
    /\ pc = "y_local_active"
    /\ ParseDocs(context) # <<>>
    /\ doc_texts' = ParseDocs(context)
    /\ combined_context' = CombineDocs(doc_texts')
    /\ local_calls' = local_calls + 1
    /\ \E generated \in Answers : answer' = Strip(generated)
    /\ IF IsCopy(answer', combined_context')
       THEN /\ out' = Append(out, SummaryFrag)
            /\ pc' = "y_summary"
            /\ idx' = 1
       ELSE /\ out' = Append(out, AnswerFrag(answer'))
            /\ pc' = "y_answer"
            /\ idx' = idx
    /\ UNCHANGED <<indexing, setup, retrieved, primary, shown, raised>>

\* the good answer is followed by the number of source documents
SourceShown ==
    /\ pc = "y_answer"
    /\ out' = Append(out, SourceFrag(doc_texts))
    /\ pc' = "y_source"
    /\ UNCHANGED <<indexing, setup, retrieved, primary, local, loops, raised>>

\* the summary loop: the next sentence that is not blank, or the end
SummaryNext ==
    /\ pc = "y_summary"
    /\ LET sents == Sentences(combined_context)
           k == NextSentence(sents, idx)
       IN  IF k = 0
           THEN /\ pc' = "done"
                /\ UNCHANGED <<out, idx>>
           ELSE /\ out' = Append(out, SentenceFrag(k, sents[k]))
                /\ idx' = k + 1
                /\ pc' = "y_summary"
    /\ UNCHANGED <<indexing, setup, retrieved, primary, local, shown, raised>>

\* variant: the exception of the local model is not caught
LocalRaises_Uncaught ==
    /\ pc = "y_local_active"
    /\ ParseDocs(context) # <<>>
    /\ doc_texts' = ParseDocs(context)
    /\ combined_context' = CombineDocs(doc_texts')
    /\ local_calls' = local_calls + 1
    /\ raised' = TRUE
    /\ pc' = "done"
    /\ UNCHANGED <<indexing, setup, retrieved, out, primary, answer, loops>>

\* the local model raises: except Exception, the last-resort notice
LocalRaises ==
    /\ pc = "y_local_active"
    /\ ParseDocs(context) # <<>>
    /\ doc_texts' = ParseDocs(context)
    /\ combined_context' = CombineDocs(doc_texts')
    /\ local_calls' = local_calls + 1
    /\ out' = Append(out, BasedFrag)
    /\ pc' = "y_based_on"
    /\ idx' = 1
    /\ shown' = 0
    /\ UNCHANGED <<indexing, setup, retrieved, primary, answer, raised>>

\* the excerpt loop: the next line holding "]:" while fewer than three
\* are shown, or the end
ExcerptNext ==
    /\ pc = "y_based_on"
    /\ LET lines == ExcerptLines(context)
           k == IF shown >= MaxShown THEN 0 ELSE NextExcerpt(lines, idx)
       IN  IF k = 0
           THEN /\ pc' = "done"
                /\ UNCHANGED <<out, idx, shown>>
           ELSE /\ out' = Append(out, ExcerptFrag(shown + 1,
                                                  ExcerptContent(lines[k])))
                /\ idx' = k + 1
                /\ shown' = shown + 1
                /\ pc' = "y_based_on"
    /\ UNCHANGED <<indexing, setup, retrieved, primary, local, raised>>

\* the generator returns after its last fragment
Return ==
    /\ pc \in {"y_key_missing", "y_no_documents", "y_raw_context",
               "y_raw_excerpt", "y_source"}
    /\ pc' = "done"
    /\ UNCHANGED <<indexing, setup, retrieved, out, primary, local, loops,
                   raised>>

Fallback ==
    \/ LoadErrorExcerptShown
    \/ ParseFails
    \/ ParseErrorExcerptShown
    \/ LocalAnswers
    \/ SourceShown
    \/ SummaryNext
    \/ LocalRaises
    \/ ExcerptNext

Next ==
    \/ Query
    \/ KeyMissing
    \/ PrimaryChunkArrives
    \/ PrimaryEnds
    \/ PrimaryFails
    \/ Fallback
    \/ Return

Spec == Init /\ [][Next]_vars

----------------------------------------------------------------------------
(* _local_fallback called on its own with a given context *)

InitFallback ==
    /\ client = TRUE
    /\ local_model \in {"loaded", "none"}
    /\ results = <<>>
    /\ context \in DirectContexts
    /\ pc = "call"
    /\ out = <<>>
    /\ stream = "none"
    /\ delivered = <<>>
    /\ primary_calls = 0
    /\ local_calls = 0
    /\ raised = FALSE
    /\ doc_texts = <<>>
    /\ combined_context = <<>>
    /\ answer = <<>>
    /\ idx = 0
    /\ shown = 0
    /\ IndexingIdle

\* the first pull on _local_fallback(context, user_query)
FallbackCalled ==
    /\ pc = "call"
    /\ EnterFallback
    /\ UNCHANGED <<indexing, setup, retrieved, primary, local, loops, raised>>

NextFallback ==
    \/ FallbackCalled
    \/ Fallback
    \/ Return

SpecFallback == InitFallback /\ [][NextFallback]_vars

----------------------------------------------------------------------------
(* _smart_chunk: splitting a text into chunks *)

\* the default of the chunk_size parameter
DefaultChunkSize == 1000

\* the default of the overlap parameter
DefaultOverlap == 100

\* variant: "? " is tried before ". "
Separators_QuestionFirst ==
    << <<"\n", "\n">>, <<"\n">>, <<"?", " ">>, <<".", " ">>, <<"!", " ">>,
       <<" ">>, <<>> >>

\* separators, in the order the carving loop tries them from the second on
Separators ==
    << <<"\n", "\n">>, <<"\n">>, <<".", " ">>, <<"?", " ">>, <<"!", " ">>,
       <<" ">>, <<>> >>

\* sep occurs in s at the position i, counted from 1
MatchAt(s, sep, i) ==
    /\ i >= 1
    /\ i + Len(sep) - 1 <= Len(s)
    /\ \A k \in 1..Len(sep) : s[i + k - 1] = sep[k]

\* s.rfind(sep): the highest offset, counted from 0, at which sep occurs
\* in s, or -1; the empty separator occurs at every offset up to len(s)
RFind(s, sep) ==
    LET hits == {i \in 0..(Len(s) - Len(sep)) : MatchAt(s, sep, i + 1)}
    IN  IF hits = {} THEN -1
        ELSE CHOOSE i \in hits : \A j \in hits : j <= i

\* s.split(sep) from the offset start on, for a separator that is not
\* empty: occurrences are taken from left to right and do not overlap
RECURSIVE SplitSepFrom(_, _, _)
SplitSepFrom(s, sep, start) ==
    LET hits == {i \in start..Len(s) : MatchAt(s, sep, i)}
    IN  IF hits = {} THEN <<SubSeq(s, start, Len(s))>>
        ELSE LET i == CHOOSE h \in hits : \A k \in hits : h <= k
             IN  <<SubSeq(s, start, i - 1)>>
                   \o SplitSepFrom(s, sep, i + Len(sep))

\* text.split("\n\n")
Paragraphs(s) == SplitSepFrom(s, Separators[1], 1)

\* the for loop over separators[1:] with its break: the offset just after
\* the last occurrence of the first separator that occurs in the window,
\* or -1 when none occurs
RECURSIVE FirstSeparatorCut(_, _)
FirstSeparatorCut(window, seps) ==
    IF seps = <<>> THEN -1
    ELSE LET match == RFind(window, Head(seps))
         IN  IF match # -1 THEN match + Len(Head(seps))
             ELSE FirstSeparatorCut(window, Tail(seps))

\* variant: the cut is placed before the separator found
SplitIdx_BeforeSeparator(cur, size) ==
    LET window == Take(cur, size)
        found == {i \in 2..Len(Separators) :
                    RFind(window, Separators[i]) # -1}
        first == CHOOSE i \in found : \A j \in found : i <= j
    IN  RFind(window, Separators[first])

\* split_idx of one iteration of the carving loop on the buffer cur
SplitIdx(cur, size) ==
    LET split_idx == FirstSeparatorCut(Take(cur, size), Tail(Separators))
    IN  IF split_idx = -1 THEN size ELSE split_idx

\* final_chunks.append(current_chunk.strip()) when the buffer is not empty
Flushed(fin, cur) == IF cur # <<>> THEN Append(fin, Strip(cur)) ELSE fin

\* part + "\n\n"
WithBreak(part) == part \o Separators[1]

\* variant: a part that fills the buffer to the limit is taken as fitting
Fits_Inclusive(cur, part, size) == Len(cur) + Len(part) <= size

\* the test of line 70: the part still fits into the buffer
Fits(cur, part, size) == Len(cur) + Len(part) < size

\* final_chunks.append(current_chunk[:split_idx].strip())
CarveChunk(cur, size) == Strip(Take(cur, SplitIdx(cur, size)))

\* variant: the character after the cut is lost
CarveRest_SkipsOne(cur, size) == Drop(cur, SplitIdx(cur, size) + 1)

\* current_chunk = current_chunk[split_idx:]
CarveRest(cur, size) == Drop(cur, SplitIdx(cur, size))

\* variant: blank chunks are returned too
NonBlank_Any(c) == TRUE

\* the final filter: chunks that are blank are dropped
NonBlank(c) == Strip(c) # <<>>

\* _smart_chunk is called on its own with the text t, the size n and the
\* overlap o
ChunkCalled(t, n, o) ==
    /\ chunk_text = t
    /\ chunk_size = n
    /\ overlap = o
    /\ text_parts = <<>>
    /\ part_i = 0
    /\ current_chunk = <<>>
    /\ final_chunks = <<>>
    /\ chunks = <<>>
    /\ cpc = "start"

\* variant: the empty text yields one empty chunk
ChunkEmpty_OneChunk ==
    /\ cpc = "start"
    /\ chunk_text = <<>>
    /\ chunks' = << <<>> >>
    /\ cpc' = "done"
    /\ UNCHANGED <<chunk_text, chunk_size, overlap, text_parts, part_i,
                   current_chunk, final_chunks>>
    /\ UNCHANGED <<store, generation>>

\* if not text: return []
ChunkEmpty ==
    /\ cpc = "start"
    /\ chunk_text = <<>>
    /\ chunks' = <<>>
    /\ cpc' = "done"
    /\ UNCHANGED <<chunk_text, chunk_size, overlap, text_parts, part_i,
                   current_chunk, final_chunks>>
    /\ UNCHANGED <<store, generation>>

\* parts = text.split("\n\n"), current_chunk = "", final_chunks = []
ChunkSplit ==
    /\ cpc = "start"
    /\ chunk_text # <<>>
    /\ text_parts' = Paragraphs(chunk_text)
    /\ part_i' = 1
    /\ current_chunk' = <<>>
    /\ final_chunks' = <<>>
    /\ cpc' = "parts"
    /\ UNCHANGED <<chunk_text, chunk_size, overlap, chunks>>
    /\ UNCHANGED <<store, generation>>

\* a blank part is skipped
SkipBlank ==
    /\ cpc = "parts"
    /\ part_i <= Len(text_parts)
    /\ Strip(text_parts[part_i]) = <<>>
    /\ part_i' = part_i + 1
    /\ UNCHANGED <<chunk_text, chunk_size, overlap, text_parts,
                   current_chunk, final_chunks, chunks, cpc>>
    /\ UNCHANGED <<store, generation>>

\* a part that fits is added to the buffer
Accumulate ==
    /\ cpc = "parts"
    /\ part_i <= Len(text_parts)
    /\ Strip(text_parts[part_i]) # <<>>
    /\ Fits(current_chunk, text_parts[part_i], chunk_size)
    /\ current_chunk' = current_chunk \o WithBreak(text_parts[part_i])
    /\ part_i' = part_i + 1
    /\ UNCHANGED <<chunk_text, chunk_size, overlap, text_parts, final_chunks,
                   chunks, cpc>>
    /\ UNCHANGED <<store, generation>>

\* a part that does not fit: the buffer is flushed and restarted with the
\* part, and the carving loop is entered
StartNew ==
    /\ cpc = "parts"
    /\ part_i <= Len(text_parts)
    /\ Strip(text_parts[part_i]) # <<>>
    /\ ~Fits(current_chunk, text_parts[part_i], chunk_size)
    /\ final_chunks' = Flushed(final_chunks, current_chunk)
    /\ current_chunk' = WithBreak(text_parts[part_i])
    /\ cpc' = "carve"
    /\ UNCHANGED <<chunk_text, chunk_size, overlap, text_parts, part_i,
                   chunks>>
    /\ UNCHANGED <<store, generation>>

\* variant: the rest starts overlap characters before the cut
Carve_Overlapping ==
    /\ cpc = "carve"
    /\ Len(current_chunk) > chunk_size
    /\ final_chunks' = Append(final_chunks,
                              CarveChunk(current_chunk, chunk_size))
    /\ current_chunk' =
          Drop(current_chunk,
               Max(SplitIdx(current_chunk, chunk_size) - overlap, 1))
    /\ UNCHANGED <<chunk_text, chunk_size, overlap, text_parts, part_i,
                   chunks, cpc>>
    /\ UNCHANGED <<store, generation>>

\* while len(current_chunk) > chunk_size: one chunk is carved off the front
Carve ==
    /\ cpc = "carve"
    /\ Len(current_chunk) > chunk_size
    /\ final_chunks' = Append(final_chunks,
                              CarveChunk(current_chunk, chunk_size))
    /\ current_chunk' = CarveRest(current_chunk, chunk_size)
    /\ UNCHANGED <<chunk_text, chunk_size, overlap, text_parts, part_i,
                   chunks, cpc>>
    /\ UNCHANGED <<store, generation>>

\* the carving loop ends: the buffer is no longer than chunk_size
CarveDone ==
    /\ cpc = "carve"
    /\ Len(current_chunk) <= chunk_size
    /\ part_i' = part_i + 1
    /\ cpc' = "parts"
    /\ UNCHANGED <<chunk_text, chunk_size, overlap, text_parts,
                   current_chunk, final_chunks, chunks>>
    /\ UNCHANGED <<store, generation>>

\* after the last part: the buffer is flushed and blank chunks are dropped
ChunkFinish ==
    /\ cpc = "parts"
    /\ part_i > Len(text_parts)
    /\ final_chunks' = Flushed(final_chunks, current_chunk)
    /\ chunks' = SelectSeq(final_chunks', NonBlank)
    /\ cpc' = "done"
    /\ UNCHANGED <<chunk_text, chunk_size, overlap, text_parts, part_i,
                   current_chunk>>
    /\ UNCHANGED <<store, generation>>

SmartChunkStep ==
    \/ ChunkEmpty
    \/ ChunkSplit
    \/ SkipBlank
    \/ Accumulate
    \/ StartNew
    \/ Carve
    \/ CarveDone
    \/ ChunkFinish

(* _smart_chunk as a function: the loops above, run to their end *)

RECURSIVE CarveLoop(_, _)
CarveLoop(st, size) ==
    IF Len(st.cur) > size
    THEN CarveLoop([cur |-> CarveRest(st.cur, size),
                    fin |-> Append(st.fin, CarveChunk(st.cur, size))], size)
    ELSE st

RECURSIVE PartsLoop(_, _, _)
PartsLoop(st, ps, size) ==
    IF ps = <<>> THEN st
    ELSE LET part == Head(ps)
             after ==
               IF Strip(part) = <<>> THEN st
               ELSE IF Fits(st.cur, part, size)
                    THEN [cur |-> st.cur \o WithBreak(part), fin |-> st.fin]
                    ELSE CarveLoop([cur |-> WithBreak(part),
                                    fin |-> Flushed(st.fin, st.cur)], size)
         IN  PartsLoop(after, Tail(ps), size)

SmartChunk(t, size) ==
    IF t = <<>> THEN <<>>
    ELSE LET st == PartsLoop([cur |-> <<>>, fin |-> <<>>],
                             Paragraphs(t), size)
         IN  SelectSeq(Flushed(st.fin, st.cur), NonBlank)

(* The chunker on every short text over a small alphabet *)

\* longest text
MaxTextLen == 4

\* largest chunk_size
MaxChunkSize == 5

Alphabet == {"a", " ", "\n", ".", "?", "!"}

ShortTexts == UNION {[1..n -> Alphabet] : n \in 0..MaxTextLen}

\* values of the overlap argument: none, one character, the default
Overlaps == {0, 1, DefaultOverlap}

InitChunk ==
    /\ GenerationIdle
    /\ apc = "direct"
    /\ heap = <<>>
    /\ metadata = 0
    /\ collection = <<>>
    /\ adds = 0
    /\ uuids = 0
    /\ clock = 0
    /\ \E t \in ShortTexts, n \in 1..MaxChunkSize, o \in Overlaps :
          ChunkCalled(t, n, o)

NextChunk == SmartChunkStep

SpecChunk == InitChunk /\ [][NextChunk]_vars

----------------------------------------------------------------------------
(* Properties of the generation protocol *)

\* some fragment of o has the given kind
Has(o, kind) == \E i \in 1..Len(o) : o[i].kind = kind

\* number of fragments of o that have the given kind
Count(o, kind) == Cardinality({i \in 1..Len(o) : o[i].kind = kind})

\* C1: every terminal path of the fragment sequence yields at least one
\* fragment before the sequence ends, whatever the credential, the primary
\* stream, the context and the local model do.
C1_EveryPathYields == pc = "done" => Len(out) >= 1

\* fragments _local_fallback yields at most: a notice, a header and three
\* sentences or excerpts
MaxFallbackFrags == 2 + Max(MaxSentences, MaxShown)

\* C2: generation failures are contained: no exception ever reaches the
\* caller, every pull after query either yields one fragment or ends the
\* sequence, and the fragments number at most those of the primary stream
\* plus the few of the fallback, so draining ends normally after finitely
\* many fragments.
C2_FailuresContained ==
    /\ [](~raised /\ Len(out) <= Len(delivered) + MaxFallbackFrags)
    /\ [][pc # "init" =>
            \/ pc' = "done" /\ out' = out
            \/ pc' # "done" /\ Len(out') = Len(out) + 1]_vars

\* a run in which the primary stream raised after one chunk, the local
\* model raised too, and the sequence has ended
C2_Witness ==
    /\ pc = "done"
    /\ stream = "raised"
    /\ Len(delivered) = 1
    /\ local_calls = 1
    /\ Has(out, "based_on")
    /\ ~raised

\* C3: the protocol only moves forward: the primary call is opened at most
\* once, and once the primary has raised and the fallback is entered, no
\* primary call is made and no primary fragment is produced or yielded.
C3_ForwardOnly ==
    /\ [](primary_calls <= 1)
    /\ [][stream = "raised" =>
            /\ stream' = "raised"
            /\ primary_calls' = primary_calls
            /\ delivered' = delivered
            /\ Count(out', "primary") = Count(out, "primary")]_vars

\* the fallback ran to its end, local model included, after a primary error
C3_Witness ==
    /\ pc = "done"
    /\ stream = "raised"
    /\ primary_calls = 1
    /\ local_calls = 1
    /\ Len(out) > Len(delivered) + 1

\* C4: partial results: the output starts with exactly the fragments the
\* primary stream delivered, in their order, each one yielded by the pull
\* that received it; nothing after them is a primary fragment; fallback
\* fragments follow them exactly when the stream raised, and with a client
\* and no error the output is the primary fragments alone.
C4_PartialResults ==
    /\ Len(out) >= Len(delivered)
    /\ SubSeq(out, 1, Len(delivered)) = delivered
    /\ \A i \in 1..Len(delivered) :
          \A j \in 1..Len(delivered) : i # j => delivered[i] # delivered[j]
    /\ \A i \in (Len(delivered) + 1)..Len(out) : out[i].kind # "primary"
    /\ stream = "raised" => Len(out) > Len(delivered)
    /\ (client /\ stream # "raised") => out = delivered

\* two chunks were delivered, then the stream raised and the fallback ended
C4_Witness ==
    /\ pc = "done"
    /\ stream = "raised"
    /\ Len(delivered) = 2
    /\ Len(out) > 2

\* C5: without a credential the generator yields one fragment, the notice
\* with the raw context, and ends; neither model is ever invoked.
C5_NoCredential ==
    ~client =>
        /\ primary_calls = 0
        /\ local_calls = 0
        /\ stream = "none"
        /\ \/ pc \in {"init", "ready"} /\ out = <<>>
           \/ /\ pc \in {"y_key_missing", "done"}
              /\ out = <<[kind |-> "api_key_missing", n |-> 0,
                          text |-> context]>>

\* the run without a credential ended, on the empty context
C5_Witness ==
    /\ ~client
    /\ pc = "done"
    /\ context = <<>>
    /\ Len(out) = 1

\* C6 as stated: with an empty context the finished run has yielded exactly
\* the "no relevant documents" fragment.
C6_EmptyContextOnlyNotice ==
    (pc = "done" /\ context = <<>>) => out = <<NoDocumentsFrag>>

\* C6 amended: with an empty context and a primary call that raised, the
\* fallback contributes exactly the "no relevant documents" fragment after
\* the primary fragments already yielded and the run ends without a call
\* of the local model; it is the whole output when the primary raised
\* before its first chunk.
C6_EmptyContextAfterPrimaryError ==
    (context = <<>> /\ stream = "raised") =>
        /\ pc \in {"y_no_documents", "done"}
        /\ out = delivered \o <<[kind |-> "no_documents", n |-> 0,
                                 text |-> <<>>]>>
        /\ local_calls = 0

\* the primary raised at once on an empty context and the run ended
C6_Witness ==
    /\ pc = "done"
    /\ context = <<>>
    /\ stream = "raised"
    /\ delivered = <<>>
    /\ local_model = "loaded"
    /\ Len(out) = 1

\* C7: the local model is invoked at most once, and only after a primary
\* error, on a context that is not empty, with the model loaded and at
\* least one reconstructed document; the source text of its prompt has at
\* most 300 characters; an empty context or a missing model means no
\* invocation at all.
C7_LocalInvocation ==
    /\ local_calls <= 1
    /\ local_calls = 1 =>
          /\ stream = "raised"
          /\ context # <<>>
          /\ local_model = "loaded"
          /\ doc_texts # <<>>
          /\ Len(combined_context) <= 300
    /\ (context = <<>> \/ local_model = "none") => local_calls = 0

\* the local model was invoked on a source text cut to the limit
C7_Witness ==
    /\ local_calls = 1
    /\ Len(combined_context) = 300
    /\ Len(Join(doc_texts, <<" ">>)) > 300
    /\ pc = "done"

----------------------------------------------------------------------------
(* Properties of the reconstruction, the validation and the last resort *)

\* position of the first occurrence of the characters a b c in s, or 0
Find3(s, a, b, c) ==
    LET hits == {i \in 1..(Len(s) - 2) :
                   s[i] = a /\ s[i + 1] = b /\ s[i + 2] = c}
    IN  IF hits = {} THEN 0 ELSE CHOOSE h \in hits : \A k \in hits : h <= k

\* the line reads "- [date] (source): text" with a source that is not
\* empty and no parenthesis inside the date or the source
IsRecordLine(line) ==
    /\ Len(line) >= 3
    /\ Take(line, 3) = S_RecOpen
    /\ Find3(line, "]", " ", "(") # 0
    /\ Find3(line, ")", ":", " ") > Find3(line, "]", " ", "(") + 3
    /\ \A i \in 1..(Find3(line, ")", ":", " ") - 1) :
          /\ line[i] # ")"
          /\ line[i] = "(" => i = Find3(line, "]", " ", "(") + 2

\* the text of a record line: what follows its "): "
RecordText(line) == Drop(line, Find3(line, ")", ":", " ") + 2)

\* the lines of a context, without the empty piece after a final newline
ContextLines(ctx) ==
    LET ls == SplitChar(ctx, "\n")
    IN  IF ls[Len(ls)] = <<>> THEN SubSeq(ls, 1, Len(ls) - 1) ELSE ls

\* the context is one record line after the other
AllRecordLines(ctx) ==
    /\ ContextLines(ctx) # <<>>
    /\ \A i \in 1..Len(ContextLines(ctx)) : IsRecordLine(ContextLines(ctx)[i])

\* the text with runs of blanks reduced to one space and trimmed
Normalized(text) == Strip(CollapseSpaces(text))

\* the normalized texts of the record lines of a context, in order
RecordTexts(ctx) ==
    [i \in 1..Len(ContextLines(ctx)) |->
        Normalized(RecordText(ContextLines(ctx)[i]))]

\* the reconstruction has run in this state
Reconstructed ==
    pc \in {"y_parse_error", "y_raw_excerpt", "y_answer", "y_source",
            "y_summary", "y_based_on"}

\* C8 as stated: the scenario context gives the two documents
\* "Hello world." and "Goodbye world.", and every record line gives one
\* document holding its text.
C8_EveryRecordLineKept ==
    /\ (Reconstructed /\ context = ScenarioContext) =>
          doc_texts = <<TextHello, TextGoodbye>>
    /\ (Reconstructed /\ AllRecordLines(context)) =>
          doc_texts = RecordTexts(context)

\* C8 amended: the reconstructed documents are, in order, the normalized
\* texts of those record lines whose normalized text is longer than 20
\* characters; the scenario context, whose two texts have 12 and 14
\* characters, gives no document.
C8_LongRecordLinesKept ==
    /\ (Reconstructed /\ context = ScenarioContext) => doc_texts = <<>>
    /\ (Reconstructed /\ AllRecordLines(context)) =>
          LET LongEnough(text) == Len(text) > 20
          IN  doc_texts = SelectSeq(RecordTexts(context), LongEnough)

\* the scenario context was parsed
C8_Witness ==
    /\ context = ScenarioContext
    /\ pc = "y_parse_error"
    /\ Len(RecordTexts(context)) = 2
    /\ doc_texts = <<>>

\* distinct lower-cased words of the answer that occur in the source
SharedWords(ans, src) ==
    {w \in WordSet(Lower(ans)) : w \in WordSet(Lower(src))}

\* distinct lower-cased words of the answer
DistinctWords(ans) == WordSet(Lower(ans))

\* the local model answered and the answer was validated
Validated == Has(out, "answer") \/ Has(out, "summary")

\* C9: the overlap threshold is strict: a generated answer of at least 20
\* characters is yielded as the answer, followed by the source count, when
\* its overlap is at most 70 percent, exactly 70 percent included; the
\* extractive summary replaces it when the overlap is above 70 percent.
C9_OverlapBoundary ==
    Validated =>
        LET shared == Cardinality(SharedWords(answer, combined_context))
            distinct == Max(Cardinality(DistinctWords(answer)), 1)
        IN  /\ (Len(answer) >= 20 /\ 10 * shared <= 7 * distinct) =>
                  /\ Has(out, "answer")
                  /\ ~Has(out, "summary")
                  /\ out[Len(out) - (IF pc = "y_answer" THEN 0 ELSE 1)]
                        = [kind |-> "answer", n |-> 0, text |-> answer]
                  /\ pc # "y_answer" =>
                        /\ pc \in {"y_source", "done"}
                        /\ out[Len(out)].kind = "source_count"
                        /\ out[Len(out)].n = Len(doc_texts)
            /\ 10 * shared > 7 * distinct =>
                  /\ Has(out, "summary")
                  /\ ~Has(out, "answer")

\* an answer of ten distinct words, seven of them words of the source, was
\* yielded with its source count
C9_Witness ==
    /\ pc = "done"
    /\ Has(out, "answer")
    /\ Len(answer) >= 20
    /\ Cardinality(DistinctWords(answer)) = 10
    /\ Cardinality(SharedWords(answer, combined_context)) = 7

\* every retrieved chunk is one line
SingleLineResults ==
    \A i \in 1..Len(results) :
        \A k \in 1..Len(results[i].text) : results[i].text[k] # "\n"

\* C10: after an exception of the local model the run yields the "Based on
\* your documents" notice and then one excerpt per line of the context, up
\* to three: min(n, 3) excerpts for a context of n single-line records.
C10_ErrorFallbackExcerpts ==
    (pc = "done" /\ Has(out, "based_on") /\ SingleLineResults) =>
        /\ Count(out, "based_on") = 1
        /\ Count(out, "excerpt") = Min(Len(results), 3)
        /\ \A i \in 1..Len(out) :
              out[i].kind = "excerpt" => Len(out[i].text) <= 250

----------------------------------------------------------------------------
(* add_document: chunking a document and writing its chunks to the store *)

\* most calls of add_document
MaxCalls == 2

\* d[key] = value on a dictionary
Put(d, key, value) ==
    [k \in DOMAIN d \cup {key} |-> IF k = key THEN value ELSE d[k]]

\* datetime.now().isoformat() during the n-th call: the clock moves on
\* between calls
Now(n) ==
    Take(DateB, Len(DateB) - 1)
      \o <<(<<"0", "1", "2", "3", "4", "5", "6", "7", "8", "9">>)[n + 1]>>

\* variant: created_at is set whether the mapping has one or not
Stamped_Always(d, n) == Put(d, "created_at", Now(n))

\* the mapping as add_document leaves it after its first statement
Stamped(d, n) ==
    IF "created_at" \notin DOMAIN d THEN Put(d, "created_at", Now(n)) ELSE d

\* variant: every record refers to the caller's mapping itself
Copies_Shared(h, ref, n) ==
    [heap |-> h, refs |-> [i \in 1..n |-> ref]]

\* [metadata.copy() for _ in chunks]: n new dictionaries with the entries
\* of the dictionary ref
Copies(h, ref, n) ==
    [heap |-> h \o [i \in 1..n |-> h[ref]],
     refs |-> [i \in 1..n |-> Len(h) + i]]

\* for i, meta in enumerate(metadatas): meta["chunk_index"] = i, from the
\* position i on, counted from 1
RECURSIVE IndexLoop(_, _, _)
IndexLoop(h, refs, i) ==
    IF i > Len(refs) THEN h
    ELSE IndexLoop([h EXCEPT ![refs[i]] = Put(@, "chunk_index", i - 1)],
                   refs, i + 1)

\* [str(uuid.uuid4()) for _ in chunks], after made identifiers were made
NewIds(made, n) == [i \in 1..n |-> made + i]

\* documents to ingest
DocBlank == <<" ", " ", " ">>

\* one paragraph of 1200 characters
DocLong == Strip(Repeat(TextNoteUnit, 50))

\* three paragraphs of 720 characters
DocParagraphs ==
    LET paragraph == Strip(Repeat(TextNoteUnit, 30))
    IN  paragraph \o Separators[1] \o paragraph \o Separators[1] \o paragraph

DocTexts == {<<>>, DocBlank, TextGeo, DocLong, DocParagraphs}

TypePdf == <<"p", "d", "f">>

TypeNote == <<"n", "o", "t", "e">>

\* the callers of ingest.py give a created_at; other callers need not
Metadatas ==
    {[source |-> SrcA, type |-> TypePdf, created_at |-> DateA],
     [source |-> SrcW, type |-> TypeNote]}

\* a caller builds the mapping d and calls add_document(t, d)
DocumentPassed(t, d) ==
    /\ apc = "idle"
    /\ clock < MaxCalls
    /\ heap' = Append(heap, d)
    /\ metadata' = Len(heap')
    /\ chunk_text' = t
    /\ apc' = "called"
    /\ UNCHANGED <<chunk_size, overlap, text_parts, part_i, current_chunk,
                   final_chunks, chunks, cpc>>
    /\ UNCHANGED <<collection, adds, uuids, clock, generation>>

\* add_document up to its call of _smart_chunk: the mapping passed in is
\* stamped when it has no created_at
AddDocument ==
    /\ apc = "called"
    /\ clock' = clock + 1
    /\ heap' = [heap EXCEPT ![metadata] = Stamped(@, clock')]
    /\ apc' = "chunking"
    /\ chunk_size' = DefaultChunkSize
    /\ overlap' = DefaultOverlap
    /\ text_parts' = <<>>
    /\ part_i' = 0
    /\ current_chunk' = <<>>
    /\ final_chunks' = <<>>
    /\ chunks' = <<>>
    /\ cpc' = "start"
    /\ UNCHANGED <<chunk_text, metadata, collection, adds, uuids, generation>>

\* variant: without the early return, the empty lists go to collection.add
NothingToIngest_Writes ==
    /\ apc = "chunking"
    /\ cpc = "done"
    /\ chunks = <<>>
    /\ adds' = adds + 1
    /\ apc' = "idle"
    /\ cpc' = "idle"
    /\ UNCHANGED <<chunk_text, chunk_size, overlap, text_parts, part_i,
                   current_chunk, final_chunks, chunks>>
    /\ UNCHANGED <<heap, metadata, collection, uuids, clock>>
    /\ UNCHANGED generation

\* if not chunks: the warning is printed and add_document returns
NothingToIngest ==
    /\ apc = "chunking"
    /\ cpc = "done"
    /\ chunks = <<>>
    /\ apc' = "idle"
    /\ cpc' = "idle"
    /\ UNCHANGED <<chunk_text, chunk_size, overlap, text_parts, part_i,
                   current_chunk, final_chunks, chunks>>
    /\ UNCHANGED <<heap, metadata, collection, adds, uuids, clock>>
    /\ UNCHANGED generation

\* the identifiers, the copies, the chunk_index loop and collection.add
StoreChunks ==
    /\ apc = "chunking"
    /\ cpc = "done"
    /\ chunks # <<>>
    /\ LET n == Len(chunks)
           ids == NewIds(uuids, n)
           copied == Copies(heap, metadata, n)
           metadatas == copied.refs
           indexed == IndexLoop(copied.heap, metadatas, 1)
       IN  /\ uuids' = uuids + n
           /\ heap' = indexed
           /\ collection' = collection \o
                [i \in 1..n |-> [id |-> ids[i],
                                 document |-> chunks[i],
                                 metadata |-> indexed[metadatas[i]]]]
    /\ adds' = adds + 1
    /\ apc' = "idle"
    /\ cpc' = "idle"
    /\ UNCHANGED <<chunk_text, chunk_size, overlap, text_parts, part_i,
                   current_chunk, final_chunks, chunks>>
    /\ UNCHANGED <<metadata, clock>>
    /\ UNCHANGED generation

InitIngest ==
    /\ GenerationIdle
    /\ IndexingIdle

NextIngest ==
    \/ \E t \in DocTexts, d \in Metadatas : DocumentPassed(t, d)
    \/ AddDocument
    \/ SmartChunkStep
    \/ NothingToIngest
    \/ StoreChunks

SpecIngest == InitIngest /\ [][NextIngest]_vars

----------------------------------------------------------------------------
(* Claims on _smart_chunk *)

\* the chunk appended to final_chunks by the step just taken
Appended == final_chunks'[Len(final_chunks')]

\* the first size characters of the buffer hold no newline, no sentence
\* end and no space
NoSeparatorIn(cur, size) ==
    LET window == Take(cur, size)
    IN  /\ \A i \in 1..Len(window) : window[i] # "\n" /\ window[i] # " "
        /\ \A i \in 1..(Len(window) - 1) :
             ~(window[i] \in {".", "?", "!"} /\ window[i + 1] = " ")

\* C11: no returned chunk is longer than chunk_size, every returned chunk
\* was appended by some step, and a step appends a chunk of the full
\* chunk_size only when it carves a buffer whose first chunk_size
\* characters hold no newline, sentence end or space
C11_ChunkSizeBound ==
    /\ [](cpc = "done" =>
            \A i \in 1..Len(chunks) :
               /\ Len(chunks[i]) <= chunk_size
               /\ \E j \in 1..Len(final_chunks) :
                    final_chunks[j] = chunks[i])
    /\ [][Len(final_chunks') > Len(final_chunks) =>
            /\ Len(final_chunks') = Len(final_chunks) + 1
            /\ SubSeq(final_chunks', 1, Len(final_chunks)) = final_chunks
            /\ Len(Appended) <= chunk_size
            /\ (Len(Appended) = chunk_size =>
                  /\ cpc = "carve"
                  /\ Len(current_chunk) > chunk_size
                  /\ NoSeparatorIn(current_chunk, chunk_size))]_vars

\* a text was split by a hard cut into at least two chunks, one of them
\* of the full chunk_size
C11_Witness ==
    /\ cpc = "done"
    /\ chunk_size >= 2
    /\ Len(chunks) >= 2
    /\ \E i \in 1..Len(chunks) : Len(chunks[i]) = chunk_size

\* whitespace normalization: runs of blanks collapse to one space, and the
\* ends are trimmed
Normalize(s) == Strip(CollapseSpaces(s))

\* the returned chunks joined with the paragraph separator
Rejoined == Join(chunks, Separators[1])

C13_Idempotent ==
    cpc = "done" =>
       \A i \in 1..Len(chunks) :
          SmartChunk(chunks[i], chunk_size) = <<chunks[i]>>

\* a returned chunk holds a paragraph break, and chunking it again returns
\* it alone
C13_Witness ==
    /\ cpc = "done"
    /\ \E i \in 1..Len(chunks) :
          /\ \E k \in 1..Len(chunks[i]) :
                MatchAt(chunks[i], Separators[1], k)
          /\ SmartChunk(chunks[i], chunk_size) = <<chunks[i]>>

\* C14 as stated: the empty text yields no chunk, and every text that is
\* not empty and is shorter than chunk_size yields exactly one chunk
C14_ShortTextOneChunk ==
    cpc = "done" =>
       /\ chunk_text = <<>> => chunks = <<>>
       /\ (chunk_text # <<>> /\ Len(chunk_text) < chunk_size)
            => Len(chunks) = 1

\* C14: the empty text and every blank text yield no chunk, and every text
\* shorter than chunk_size that holds a non-blank character yields
\* exactly one chunk
C14_ShortNonBlankTextOneChunk ==
    cpc = "done" =>
       /\ Strip(chunk_text) = <<>> => chunks = <<>>
       /\ (Strip(chunk_text) # <<>> /\ Len(chunk_text) < chunk_size)
            => Len(chunks) = 1

\* a text shorter than chunk_size that holds a paragraph break came back
\* as one chunk
C14_Witness ==
    /\ cpc = "done"
    /\ Len(chunk_text) < chunk_size
    /\ \E k \in 1..Len(chunk_text) : MatchAt(chunk_text, Separators[1], k)
    /\ Len(text_parts) >= 2
    /\ Len(chunks) = 1

----------------------------------------------------------------------------
(* Claims on add_document *)

\* the records added to the store by the step just taken
Written == SubSeq(collection', Len(collection) + 1, Len(collection'))

\* add_document has chunked its text and is about to return or to write
Chunked == apc = "chunking" /\ cpc = "done"

\* C15: identifiers in the store are pairwise distinct; the store is
\* written only by a call whose text gave at least one chunk; and that
\* call makes one write of one record per chunk of the text, in chunk
\* order, record i holding chunk i, a fresh identifier, chunk_index i and
\* a new dictionary with the entries of the document's metadata, whose
\* source, type and created_at all records share
C15_OneRecordPerChunk ==
    /\ [](\A i, j \in 1..Len(collection) :
            i # j => collection[i].id # collection[j].id)
    /\ [][(adds' # adds \/ collection' # collection)
            => (Chunked /\ Len(chunks) >= 1)]_vars
    /\ [][(Chunked /\ Len(chunks) >= 1) =>
            /\ chunks = SmartChunk(chunk_text, DefaultChunkSize)
            /\ adds' = adds + 1
            /\ SubSeq(collection', 1, Len(collection)) = collection
            /\ Len(Written) = Len(chunks)
            /\ Len(heap') = Len(heap) + Len(chunks)
            /\ heap'[metadata] = heap[metadata]
            /\ \A i \in 1..Len(chunks) :
                 /\ Written[i].document = chunks[i]
                 /\ \A j \in 1..Len(collection) :
                       collection[j].id # Written[i].id
                 /\ DOMAIN Written[i].metadata =
                       DOMAIN heap[metadata] \cup {"chunk_index"}
                 /\ Written[i].metadata.chunk_index = i - 1
                 /\ \A k \in {"source", "type", "created_at"} :
                       Written[i].metadata[k] = heap[metadata][k]]_vars

\* a document whose caller gave no created_at was stored as three records
C15_Witness ==
    /\ apc = "idle"
    /\ adds >= 1
    /\ Len(chunks) = 3
    /\ heap[metadata].created_at = Now(clock)
    /\ Len(collection) >= 3
    /\ \A i \in 1..3 :
          LET record == collection[Len(collection) - 3 + i]
          IN  /\ record.document = chunks[i]
              /\ record.metadata.chunk_index = i - 1
              /\ record.metadata.created_at = Now(clock)

\* add_document is running on a text that is empty or blank
BlankCall == apc = "chunking" /\ Strip(chunk_text) = <<>>

\* C16: a call of add_document on an empty or blank text never changes the
\* store and issues no write, whatever was stored before; it can always
\* take its next step, its chunking gives no chunk, and the step after
\* chunking is its return
C16_BlankTextStoresNothing ==
    /\ [][BlankCall => (collection' = collection /\ adds' = adds)]_vars
    /\ [](BlankCall => ENABLED (SmartChunkStep \/ NothingToIngest))
    /\ []((BlankCall /\ cpc = "done") => chunks = <<>>)
    /\ [][(BlankCall /\ cpc = "done") => apc' = "idle"]_vars

\* a blank text was ingested after a document had been stored, and the
\* call has returned: the store holds what it held
C16_Witness ==
    /\ apc = "idle"
    /\ clock = 2
    /\ chunk_text = DocBlank
    /\ cpc = "idle"
    /\ adds = 1
    /\ Len(collection) >= 1

----------------------------------------------------------------------------
(* Claims on query *)

\* the line "- [D] (S): <chunk text>" of a retrieved chunk, without its end
RecordLine(chunk) ==
    LET D == IF "created_at" \in DOMAIN chunk.meta
             THEN SubSeq(chunk.meta.created_at, 1,
                         Min(10, Len(chunk.meta.created_at)))
             ELSE <<"U", "n", "k", "n", "o", "w", "n">>
        S == IF "source" \in DOMAIN chunk.meta
             THEN chunk.meta.source
             ELSE <<"U", "n", "k", "n", "o", "w", "n">>
    IN  <<"-", " ", "[">> \o D \o <<"]", " ", "(">> \o S
          \o <<")", ":", " ">> \o chunk.text

\* the lines of the retrieved chunks, in ranked order
RecordLines == [i \in 1..Len(results) |-> RecordLine(results[i])]

\* C17 as stated: the context is the lines of the retrieved chunks, at
\* most three, joined by newlines
C17_ContextNewlineJoined ==
    pc # "init" =>
       /\ Len(results) <= 3
       /\ context = Join(RecordLines, <<"\n">>)

\* C17: the context is the lines of the retrieved chunks, at most three,
\* in ranked order, each line followed by a newline, so that a context
\* that is not empty ends with a newline; S is "Unknown" for a chunk
\* without source; no retrieved chunk gives the empty context
C17_ContextNewlineTerminated ==
    pc # "init" =>
       /\ Len(results) <= 3
       /\ results = <<>> => context = <<>>
       /\ results # <<>> =>
            context = Join(RecordLines, <<"\n">>) \o <<"\n">>

\* query has formatted three chunks, one without created_at and one
\* without source
C17_Witness ==
    /\ pc = "ready"
    /\ Len(results) = 3
    /\ \E i \in 1..3 : "created_at" \notin DOMAIN results[i].meta
    /\ \E i \in 1..3 : "source" \notin DOMAIN results[i].meta
    /\ context = Join(RecordLines, <<"\n">>) \o <<"\n">>

\* C18: when query has returned and nothing was pulled, the context is
\* the formatted retrieval and no model was called and no fragment
\* produced; the primary model is called, and the notice of the missing
\* credential given, only by the first pull; the local model is called
\* only by later pulls; and the context never changes after query has
\* returned, the fallback parsing that same string
C18_LazyGeneration ==
    /\ [](pc = "ready" =>
            /\ context = FormatContext(results)
            /\ out = <<>>
            /\ stream = "none"
            /\ primary_calls = 0
            /\ local_calls = 0)
    /\ [][primary_calls' # primary_calls => (pc = "ready" /\ client)]_vars
    /\ [][(Len(out') > Len(out)
             /\ out'[Len(out')].kind = "api_key_missing")
            => (pc = "ready" /\ out'[Len(out')].text = context)]_vars
    /\ [][local_calls' # local_calls => pc \notin {"init", "ready"}]_vars
    /\ [][pc # "init" => (context' = context /\ results' = results)]_vars
    /\ [][doc_texts' # doc_texts => doc_texts' = ParseDocs(context)]_vars

\* the primary model was called by the first pull and failed, and the
\* fallback has parsed the returned context and called the local model
C18_Witness ==
    /\ primary_calls = 1
    /\ stream = "raised"
    /\ local_calls = 1
    /\ context # <<>>
    /\ context = FormatContext(results)
    /\ doc_texts # <<>>
    /\ doc_texts = ParseDocs(context)

----------------------------------------------------------------------------
(* Claims on the carving loop of _smart_chunk *)

\* a number that every step of the chunker makes smaller: the parts still
\* to take weigh more than any buffer still to carve
ChunkerMeasure ==
    LET buffer == Len(chunk_text) + 4
        part == 2 * buffer
        left == Len(text_parts) - part_i + 1
    IN  CASE cpc = "start" -> part * (Len(chunk_text) + 3)
          [] cpc = "parts" -> part * left + buffer
          [] cpc = "carve" -> part * left + Len(current_chunk) + 1
          [] OTHER -> 0

\* C19: every iteration of the carving loop cuts at an offset between 1
\* and chunk_size and leaves the buffer without its first characters up
\* to the cut, hence strictly shorter; when the loop ends the buffer is
\* at most chunk_size long; and every step of the chunker makes a number
\* smaller that is never negative, so that the chunker returns
C19_CarvingShortensBuffer ==
    /\ [][(cpc = "carve" /\ Len(current_chunk) > chunk_size) =>
            \E cut \in 1..chunk_size :
               /\ current_chunk' =
                     SubSeq(current_chunk, cut + 1, Len(current_chunk))
               /\ Len(current_chunk') = Len(current_chunk) - cut
               /\ Len(current_chunk') < Len(current_chunk)]_vars
    /\ [][(cpc = "carve" /\ cpc' # "carve")
            => Len(current_chunk) <= chunk_size]_vars
    /\ [](ChunkerMeasure >= 0)
    /\ [][ChunkerMeasure' < ChunkerMeasure]_vars

\* a text without any blank was carved at least twice, and the chunker
\* has returned
C19_Witness ==
    /\ cpc = "done"
    /\ chunk_text # <<>>
    /\ \A i \in 1..Len(chunk_text) : ~IsSpace(chunk_text[i])
    /\ Len(chunk_text) > 2 * chunk_size
    /\ Len(chunks) >= 3

\* the offsets just after the occurrences of one of the separators seps
\* in the first size characters of the buffer
CutsAfter(cur, size, seps) ==
    LET window == Take(cur, size)
    IN  {i + Len(sep) - 1 : <<i, sep>> \in
           {p \in (1..Len(window)) \X seps : MatchAt(window, p[2], p[1])}}

\* the cut for a priority order of separator classes: the last offset after
\* a separator of the first class that occurs, or size when none occurs
RECURSIVE CutByClasses(_, _, _)
CutByClasses(cur, size, classes) ==
    IF classes = <<>> THEN size
    ELSE LET cuts == CutsAfter(cur, size, Head(classes))
         IN  IF cuts # {}
             THEN CHOOSE c \in cuts : \A d \in cuts : d <= c
             ELSE CutByClasses(cur, size, Tail(classes))

\* newline, then the latest sentence end of any kind, then space
ClassesAsStated ==
    << {<<"\n">>},
       {<<".", " ">>, <<"?", " ">>, <<"!", " ">>},
       {<<" ">>} >>

\* newline, then ". ", then "? ", then "! ", then space
ClassesInOrder ==
    << {<<"\n">>}, {<<".", " ">>}, {<<"?", " ">>}, {<<"!", " ">>},
       {<<" ">>} >>

\* an iteration of the carving loop cuts the buffer at the offset that the
\* classes give
CarvesBy(classes) ==
    (cpc = "carve" /\ Len(current_chunk) > chunk_size) =>
       LET cut == CutByClasses(current_chunk, chunk_size, classes)
       IN  /\ Appended = Strip(SubSeq(current_chunk, 1, cut))
           /\ current_chunk' =
                 SubSeq(current_chunk, cut + 1, Len(current_chunk))

\* C20 as stated: the cut is placed after the latest newline of the
\* window, else after the latest sentence end, whichever of ". ", "? "
\* and "! " it is, else after the latest space, else at chunk_size
C20_CutAfterLatestOfBestClass == [][CarvesBy(ClassesAsStated)]_vars

\* C20: the cut is placed after the latest newline of the window, else
\* after the latest ". ", else after the latest "? ", else after the
\* latest "! ", else after the latest space, else at chunk_size
C20_CutAfterLatestOfFirstSeparator == [][CarvesBy(ClassesInOrder)]_vars

\* a buffer whose window holds ". " and later "? " and no newline was cut
\* after the ". "
C20_Witness ==
    /\ cpc = "done"
    /\ chunk_size = 4
    /\ chunk_text = <<".", " ", "?", " ">>
    /\ final_chunks = << <<".">>, <<"?">> >>
    /\ chunks = final_chunks

----------------------------------------------------------------------------
(* Claims on the content of the chunks *)

NotBlankChar(c) == ~IsSpace(c)

\* s with all whitespace removed
Squeeze(s) == SelectSeq(s, NotBlankChar)

\* C21: whatever the overlap argument, the returned chunks concatenated in
\* order are, with all whitespace removed, the text with all whitespace
\* removed, and they are the chunks that the text and chunk_size alone
\* determine
C21_ContentKeptOnce ==
    cpc = "done" =>
       /\ Squeeze(Join(chunks, <<>>)) = Squeeze(chunk_text)
       /\ chunks = SmartChunk(chunk_text, chunk_size)

\* with an overlap of one character or more, a text holding a blank was
\* split into at least two chunks, one of them of two characters or more
C21_Witness ==
    /\ cpc = "done"
    /\ overlap >= 1
    /\ \E i \in 1..Len(chunk_text) : IsSpace(chunk_text[i])
    /\ Len(chunks) >= 2
    /\ \E i \in 1..Len(chunks) : Len(chunks[i]) >= 2
    /\ Squeeze(Join(chunks, <<>>)) = Squeeze(chunk_text)

----------------------------------------------------------------------------
(* Claims on the round trip from query to the local fallback *)

LongerThanMinDoc(s) == Len(s) > 20

\* the whitespace-normalized texts of the retrieved chunks, in ranked
\* order, without those of 20 characters or fewer
NormalizedLongTexts ==
    SelectSeq([i \in 1..Len(results) |-> Normalize(results[i].text)],
              LongerThanMinDoc)

\* C22: parsing the context that query has formatted gives the
\* whitespace-normalized texts of the retrieved chunks that are longer
\* than 20 characters, in ranked order and one document per chunk, and
\* these are the documents the fallback has when it calls the local model
C22_FormatParseRoundTrip ==
    pc # "init" =>
       /\ ParseDocs(context) = NormalizedLongTexts
       /\ local_calls >= 1 => doc_texts = NormalizedLongTexts

----------------------------------------------------------------------------
(* Claims on the mapping passed to add_document *)

\* the mapping d with a created_at entry added, whatever its value
WithCreatedAt(d, value) ==
    [k \in DOMAIN d \cup {"created_at"} |->
       IF k \in DOMAIN d THEN d[k] ELSE value]

\* C23: the first step of add_document leaves the mapping passed in as it
\* is when it has a created_at and adds a created_at to it when it has
\* none, whatever the text; no other step changes that mapping, and no
\* step changes a mapping passed to an earlier call; so a mapping that
\* add_document has taken always has a created_at, also when nothing is
\* stored, and never a chunk_index
C23_CallerMappingOnlyStamped ==
    /\ [][apc = "called" =>
            heap'[metadata] =
               IF "created_at" \in DOMAIN heap[metadata]
               THEN heap[metadata]
               ELSE WithCreatedAt(heap[metadata],
                                  heap'[metadata].created_at)]_vars
    /\ [][\A r \in 1..Len(heap) :
            (r # metadata \/ apc # "called") =>
               (r <= Len(heap') /\ heap'[r] = heap[r])]_vars
    /\ [][apc # "idle" => metadata' = metadata]_vars
    /\ [](apc \in {"chunking", "idle"} /\ metadata # 0 =>
            /\ "created_at" \in DOMAIN heap[metadata]
            /\ "chunk_index" \notin DOMAIN heap[metadata])

\* add_document was called on a blank text with a mapping without
\* created_at and has returned: nothing is stored, and the mapping has
\* its old entries and a created_at
C23_Witness ==
    /\ apc = "idle"
    /\ clock = 1
    /\ chunk_text = DocBlank
    /\ adds = 0
    /\ collection = <<>>
    /\ heap[metadata] =
          [source |-> SrcW, type |-> TypeNote, created_at |-> Now(1)]

====
